---- MODULE Spec2Model ----
(***************************************************************************)
(* Model of padding_oracle::decrypt (src/src/lib.rs): the CBC / PKCS#7     *)
(* padding-oracle attack, one step per loop header and per oracle call.    *)
(* Sequences are 1-based here and 0-based in the source: At/Put convert.   *)
(***************************************************************************)
EXTENDS Integers, Sequences, FiniteSets, TLC

\* ------------------------------------------------------------------ bounds
MaxBlockSize == 3      \* block sizes 1..MaxBlockSize
MaxPlainLen  == 3      \* plaintexts of 0..MaxPlainLen bytes are encrypted
MaxRawLen    == 4      \* arbitrary ciphertexts of 0..MaxRawLen bytes

\* byte values the bounded inputs are drawn from
PlainBytes == {1, 2, 3}
RawBytes   == {7, 200}

\* ------------------------------------------------------------ u8 / usize
Byte == 0..255

\* usize arithmetic wraps at this modulus when overflow checks are off.
\* (2^30 stands for 2^64: the model checker's integers are 32 bits wide;
\* every buffer of the model is far shorter than either.)
UsizeModulus == 1073741824

RECURSIVE XorBits(_, _, _)
XorBits(a, b, n) ==
    IF n = 0 THEN 0
    ELSE (((a % 2) + (b % 2)) % 2) + 2 * XorBits(a \div 2, b \div 2, n - 1)

\* u8 ^ u8, tabulated once
XorTable == [a \in Byte |-> [b \in Byte |-> XorBits(a, b, 8)]]
Xor(a, b) == XorTable[a][b]

\* !u8
Not8(a) == 255 - a

\* usize as u8
AsU8(n) == n % 256

\* wrapping usize subtraction (overflow checks off)
WrapSub(a, b) == (a - b) % UsizeModulus

\* s[idx] and s[idx] = v with the source's 0-based index
At(s, idx) == s[idx + 1]
Put(s, idx, v) == [s EXCEPT ![idx + 1] = v]
InRange(s, idx) == idx >= 0 /\ idx < Len(s)

RECURSIVE SeqsUpTo(_, _)
SeqsUpTo(S, n) ==
    IF n = 0 THEN {<<>>}
    ELSE LET shorter == SeqsUpTo(S, n - 1)
         IN  shorter \cup {Append(s, b) : s \in {t \in shorter : Len(t) = n - 1}, b \in S}

\* ------------------------------------------- the tests' cipher and oracle
\* The block cipher behind the oracle is opaque to decrypt; the model uses a
\* keyed byte permutation with the byte order of the block reversed.
KEY(j) == (73 * j + 41) % 256
IV(bs) == [j \in 1..bs |-> 0]

Sub(x)    == (5 * x + 17) % 256
SubInv(y) == (205 * (y + 256 - 17)) % 256

EncryptBlock(b) ==
    [j \in 1..Len(b) |-> Sub(Xor(b[Len(b) + 1 - j], KEY(j)))]
DecryptBlock(c) ==
    [j \in 1..Len(c) |-> Xor(SubInv(c[Len(c) + 1 - j]), KEY(Len(c) + 1 - j))]

XorBlock(a, b) == [j \in 1..Len(a) |-> Xor(a[j], b[j])]

Block(s, n, bs) == SubSeq(s, (n - 1) * bs + 1, n * bs)

\* Pkcs7 padding of a message to a multiple of bs (always at least one byte)
Pkcs7Pad(m, bs) ==
    LET p == bs - (Len(m) % bs)
    IN  m \o [j \in 1..p |-> p]

\* Pkcs7::raw_unpad: the pad length if the padding of the last block is valid,
\* 0 otherwise
Pkcs7PadLen(block) ==
    LET n == block[Len(block)]
    IN  IF n = 0 \/ n > Len(block) THEN 0
        ELSE IF \A j \in (Len(block) - n + 1)..Len(block) : block[j] = n
             THEN n ELSE 0

Pkcs7Unpad(m, bs) ==
    SubSeq(m, 1, Len(m) - Pkcs7PadLen(Block(m, Len(m) \div bs, bs)))

RECURSIVE CbcEncrypt(_, _, _)
\* CBC encryption of a block-aligned message, prev the previous cipher block
CbcEncrypt(m, prev, bs) ==
    IF Len(m) = 0 THEN <<>>
    ELSE LET c == EncryptBlock(XorBlock(SubSeq(m, 1, bs), prev))
         IN  c \o CbcEncrypt(SubSeq(m, bs + 1, Len(m)), c, bs)

\* CBC decryption of block n (1-based) of buf, the first block chained to IV
CbcDecryptBlock(buf, n, bs) ==
    XorBlock(DecryptBlock(Block(buf, n, bs)),
             IF n = 1 THEN IV(bs) ELSE Block(buf, n - 1, bs))

\* the ciphertext test_aes_cbc hands to decrypt: IV, then the encryption
TestCiphertext(m, bs) == IV(bs) \o CbcEncrypt(Pkcs7Pad(m, bs), IV(bs), bs)

\* the tests' oracle: decrypt_padded_mut::<Pkcs7>(buf).is_ok()
Pkcs7Oracle(buf, bs) ==
    /\ Len(buf) > 0
    /\ Len(buf) % bs = 0
    /\ Pkcs7PadLen(CbcDecryptBlock(buf, Len(buf) \div bs, bs)) > 0

\* Other deterministic fn(&[u8]) -> bool values a caller can pass.
OracleKinds == {"pkcs7", "yes", "no", "lowhalf", "xorlow"}

RECURSIVE XorAll(_)
XorAll(s) == IF Len(s) = 0 THEN 0 ELSE Xor(s[1], XorAll(Tail(s)))

oracle(kind, buf, bs) ==
    CASE kind = "pkcs7"   -> Pkcs7Oracle(buf, bs)
      [] kind = "yes"     -> TRUE
      [] kind = "no"      -> FALSE
      [] kind = "lowhalf" -> Len(buf) >= 1 /\ buf[1] < 128
      [] kind = "xorlow"  -> XorAll(buf) % 4 = 0

\* ------------------------------------------------------- pieces of decrypt
\* mutation: the length is never checked
AlignedAlways(len, bs) == TRUE

\* ciphertext.len() % blocksize != 0 is the WrongSize guard
Aligned(len, bs) == len % bs = 0

\* Error::WrongSize { blocksize, found }
WrongSize(bs, found) == [tag |-> "WrongSize", blocksize |-> bs, found |-> found]

\* mutation: an exhausted scan returns what was recovered so far
NoMatchPartial(pt) == [tag |-> "Ok", plaintext |-> pt]

\* None => return Err(Error::InvalidPadding): the local plaintext is dropped
NoMatch(pt) == [tag |-> "InvalidPadding"]

\* Ok(plaintext)
Ok(pt) == [tag |-> "Ok", plaintext |-> pt]

\* mutation: the exclusive range 1..blocksize
LastPosExclusive(bs) == bs - 1

\* for i in 1..=blocksize
LastPos(bs) == bs

\* mutation: the scan runs over a range wider than u8, truncated on write
ScanDoneLate(cand) == cand = 383

\* (0..=255u8): the candidate after which the scan is exhausted
ScanDone(cand) == cand = 255

\* "Fix remaining bytes of the padding": for j in 1..i
Fixup(buf, pt, off, pos) ==
    [n \in 1..Len(buf) |->
        IF n - 1 > off /\ n - 1 < off + pos
        THEN Xor(Xor(AsU8(pos), pt[n - 1 - off]), buf[n])
        ELSE buf[n]]

\* mutation: the confirmation probe is never made
SkipProbeAlways(off, bs) == TRUE

\* offset % blocksize == 0 short-circuits the confirmation probe
SkipProbe(off, bs) == off % bs = 0

\* mutation: the probe is made whatever the first call answered
DecisionProbeAnyway(answer, off, bs) ==
    IF off % bs = 0 THEN (IF answer THEN "accept" ELSE "reject") ELSE "probe"

\* what follows the first oracle call for a candidate
Decision(answer, off, bs) ==
    IF ~answer THEN "reject"
    ELSE IF SkipProbe(off, bs) THEN "accept" ELSE "probe"

\* mutation: the probe complements the candidate byte itself
ProbeBufAtOffset(buf, off) == Put(buf, off, Not8(At(buf, off)))

\* the clone with ciphertext[offset - 1] = !ciphertext[offset - 1]
ProbeBuf(buf, off) == Put(buf, off - 1, Not8(At(buf, off - 1)))

\* initial_byte ^ k ^ i as u8
RecoverByte(initial, cand, pos) == Xor(Xor(initial, cand), AsU8(pos))

\* mutation: plaintext.push(b)
PrependAsPush(pt, b) == Append(pt, b)

\* plaintext.insert(0, b)
Prepend(pt, b) == <<b>> \o pt

\* mutation: the first block is dropped instead of the last
TruncateFront(buf, bs) == SubSeq(buf, bs + 1, Len(buf))

\* ciphertext.truncate(ciphertext.len() - blocksize)
Truncate(buf, bs) == SubSeq(buf, 1, Len(buf) - bs)

\* ------------------------------------------------------------------- state
VARIABLES
    input,          \* the caller's ciphertext: &[u8]
    blocksize,      \* the caller's blocksize
    kind,           \* which fn(&[u8]) -> bool the caller passed
    message,        \* the message behind input when it is a TestCiphertext
    overflowChecks, \* build profile: arithmetic overflow panics ("on") or wraps
                    \* ("off"); fixed per build, "unobserved" until the first overflow
    pc,             \* position in decrypt
    ciphertext,     \* the working copy (line 78), truncated per block pair
    plaintext,      \* the accumulator (line 77)
    rounds,         \* iterations left of the outer for loop
    i,              \* byte position, 1..=blocksize
    offset,         \* line 83
    initial_byte,   \* line 84
    forged,         \* the per-position clone (line 86)
    k,              \* candidate of the scan
    query,          \* the buffer of the latest oracle call
    answer,         \* the result of the latest oracle call
    calls,          \* oracle calls so far
    firstCalls,     \* first calls (line 96) at the current byte position
    probeCalls,     \* confirmation calls (line 104) at the current byte position
    tried,          \* candidates found unconfirmed at the current byte position
    solved,         \* byte positions solved in the current block pair
    pairs,          \* block pairs retired
    accepted,       \* how the latest candidate was accepted
    result          \* the value returned, or the panic

vars == <<input, blocksize, kind, message, overflowChecks, pc, ciphertext,
          plaintext, rounds, i, offset, initial_byte, forged, k, query, answer,
          calls, firstCalls, probeCalls, tried, solved, pairs, accepted, result>>

caller == <<input, blocksize, kind, message>>

\* the profiles an overflow can meet, given what was observed so far
Profiles == IF overflowChecks = "unobserved" THEN {"on", "off"} ELSE {overflowChecks}

NoMessage == <<0>>     \* input was not built from a message
NoResult  == [tag |-> "None"]
NoAccept  == [pos |-> 0, off |-> 0, cand |-> 0, probed |-> FALSE, before |-> 0]
Panic(line) == [tag |-> "Panic", line |-> line]

BlockSizes == 1..MaxBlockSize

Init ==
    /\ blocksize \in BlockSizes
    /\ kind \in OracleKinds
    /\ overflowChecks = "unobserved"
    /\ \/ /\ message \in SeqsUpTo(PlainBytes, MaxPlainLen)
          /\ input = TestCiphertext(message, blocksize)
       \/ /\ message = NoMessage
          /\ input \in SeqsUpTo(RawBytes, MaxRawLen)
    /\ pc = "entry"
    /\ ciphertext = <<>>
    /\ plaintext = <<>>
    /\ rounds = 0
    /\ i = 0
    /\ offset = 0
    /\ initial_byte = 0
    /\ forged = <<>>
    /\ k = 0
    /\ query = <<>>
    /\ answer = FALSE
    /\ calls = 0
    /\ firstCalls = 0
    /\ probeCalls = 0
    /\ tried = 0
    /\ solved = 0
    /\ pairs = 0
    /\ accepted = NoAccept
    /\ result = NoResult

\* lines 70-75: the alignment check fails
ReturnWrongSize ==
    /\ pc = "entry"
    /\ ~Aligned(Len(input), blocksize)
    /\ pc' = "done"
    /\ result' = WrongSize(blocksize, Len(input))
    /\ UNCHANGED <<caller, overflowChecks, ciphertext, plaintext, rounds, i, offset,
                   initial_byte, forged, k, query, answer, calls, firstCalls,
                   probeCalls, tried, solved, pairs, accepted>>

\* lines 77-80: the copies are made and the outer range is evaluated
Enter ==
    /\ pc = "entry"
    /\ Aligned(Len(input), blocksize)
    /\ plaintext' = <<>>
    /\ ciphertext' = input
    /\ LET blocks == Len(input) \div blocksize
       IN  IF blocks - 1 < 0
           THEN \E profile \in Profiles :
                  /\ overflowChecks' = profile
                  /\ IF profile = "on"
                     THEN /\ pc' = "panic"
                          /\ result' = Panic(80)
                          /\ rounds' = rounds
                     ELSE /\ pc' = "outer"
                          /\ result' = result
                          /\ rounds' = WrapSub(blocks, 1)
           ELSE /\ pc' = "outer"
                /\ result' = result
                /\ rounds' = blocks - 1
                /\ UNCHANGED overflowChecks
    /\ UNCHANGED <<caller, i, offset, initial_byte, forged, k, query, answer,
                   calls, firstCalls, probeCalls, tried, solved, pairs, accepted>>

\* line 80: next iteration of the outer loop, or line 121
OuterLoop ==
    /\ pc = "outer"
    /\ IF rounds = 0
       THEN /\ pc' = "done"
            /\ result' = Ok(plaintext)
            /\ UNCHANGED <<rounds, i, solved>>
       ELSE /\ pc' = "inner"
            /\ rounds' = rounds - 1
            /\ i' = 1
            /\ solved' = 0
            /\ result' = result
    /\ UNCHANGED <<caller, overflowChecks, ciphertext, plaintext, offset, initial_byte, forged,
                   k, query, answer, calls, firstCalls, probeCalls, tried,
                   pairs, accepted>>

\* lines 82-91: next byte position: offset, initial_byte, the clone, the fix-up
InnerLoop ==
    /\ pc = "inner"
    /\ i <= LastPos(blocksize)
    /\ \E profile \in IF Len(ciphertext) - blocksize - i < 0
                       THEN Profiles ELSE {overflowChecks} :
       LET len == Len(ciphertext)
           off == WrapSub(WrapSub(len, blocksize), i)
       IN  /\ overflowChecks' = profile
           /\ IF profile = "on" /\ len - blocksize - i < 0
              THEN /\ pc' = "panic"
                   /\ result' = Panic(83)
                   /\ UNCHANGED <<offset, initial_byte, forged>>
              ELSE IF ~InRange(ciphertext, off)
              THEN /\ pc' = "panic"
                   /\ result' = Panic(84)
                   /\ offset' = off
                   /\ UNCHANGED <<initial_byte, forged>>
              ELSE IF \E j \in 1..(i - 1) : ~InRange(plaintext, j - 1)
                                            \/ ~InRange(ciphertext, off + j)
              THEN /\ pc' = "panic"
                   /\ result' = Panic(90)
                   /\ offset' = off
                   /\ initial_byte' = At(ciphertext, off)
                   /\ UNCHANGED forged
              ELSE /\ pc' = "scan"
                   /\ result' = result
                   /\ offset' = off
                   /\ initial_byte' = At(ciphertext, off)
                   /\ forged' = Fixup(ciphertext, plaintext, off, i)
    /\ k' = 0
    /\ firstCalls' = 0
    /\ probeCalls' = 0
    /\ tried' = 0
    /\ UNCHANGED <<caller, ciphertext, plaintext, rounds, i, query, answer,
                   calls, solved, pairs, accepted>>

\* lines 117-118: the block pair is retired
CutLastBlock ==
    /\ pc = "inner"
    /\ i > LastPos(blocksize)
    /\ IF Len(ciphertext) - blocksize < 0
       THEN \E profile \in Profiles :
              /\ overflowChecks' = profile
              /\ IF profile = "on"
                 THEN /\ pc' = "panic"
                      /\ result' = Panic(118)
                      /\ UNCHANGED <<ciphertext, pairs>>
                 ELSE \* truncate to more than the length leaves the Vec alone
                      /\ pc' = "outer"
                      /\ result' = result
                      /\ pairs' = pairs + 1
                      /\ UNCHANGED ciphertext
       ELSE /\ pc' = "outer"
            /\ result' = result
            /\ ciphertext' = Truncate(ciphertext, blocksize)
            /\ pairs' = pairs + 1
            /\ UNCHANGED overflowChecks
    /\ UNCHANGED <<caller, plaintext, rounds, i, offset, initial_byte, forged,
                   k, query, answer, calls, firstCalls, probeCalls, tried,
                   solved, accepted>>

\* line 112: Some(k)
Accept(probed) ==
    /\ plaintext' = Prepend(plaintext, RecoverByte(initial_byte, k, i))
    /\ accepted' = [pos |-> i, off |-> offset, cand |-> k, probed |-> probed,
                    before |-> solved]
    /\ solved' = solved + 1
    /\ i' = i + 1
    /\ pc' = "inner"
    /\ UNCHANGED <<k, tried, result>>

\* line 110: None for this candidate; line 113 after the last one
Reject ==
    /\ tried' = tried + 1
    /\ IF ScanDone(k)
       THEN /\ pc' = "done"
            /\ result' = NoMatch(plaintext)
            /\ k' = k
       ELSE /\ pc' = "scan"
            /\ result' = result
            /\ k' = k + 1
    /\ UNCHANGED <<plaintext, accepted, solved, i>>

\* lines 94-96: candidate k is written and the oracle is asked
FirstCall ==
    /\ pc = "scan"
    /\ LET buf == Put(forged, offset, AsU8(k))
           ans == oracle(kind, buf, blocksize)
           what == Decision(ans, offset, blocksize)
       IN  /\ forged' = buf
           /\ query' = buf
           /\ answer' = ans
           /\ CASE what = "accept" -> Accept(FALSE)
                [] what = "reject" -> Reject
                [] what = "probe"  ->
                     /\ pc' = "probe"
                     /\ UNCHANGED <<plaintext, accepted, solved, i, k, tried,
                                    result>>
    /\ calls' = calls + 1
    /\ firstCalls' = firstCalls + 1
    /\ UNCHANGED <<caller, overflowChecks, ciphertext, rounds, offset, initial_byte,
                   probeCalls, pairs>>

\* lines 101-104: the confirmation probe
Probe ==
    /\ pc = "probe"
    /\ IF ~InRange(forged, offset - 1)
       THEN /\ pc' = "panic"
            /\ result' = Panic(102)
            /\ UNCHANGED <<query, answer, calls, probeCalls, plaintext,
                           accepted, solved, i, k, tried>>
       ELSE LET buf == ProbeBuf(forged, offset)
                ans == oracle(kind, buf, blocksize)
            IN  /\ query' = buf
                /\ answer' = ans
                /\ calls' = calls + 1
                /\ probeCalls' = probeCalls + 1
                /\ IF ans THEN Accept(TRUE) ELSE Reject
    /\ UNCHANGED <<caller, overflowChecks, ciphertext, rounds, offset, initial_byte, forged,
                   firstCalls, pairs>>

Next ==
    \/ ReturnWrongSize
    \/ Enter
    \/ OuterLoop
    \/ InnerLoop
    \/ CutLastBlock
    \/ FirstCall
    \/ Probe

Spec == Init /\ [][Next]_vars

\* ---------------------------------------------------------------- claims
N == Len(input) \div blocksize
InputAligned == Len(input) % blocksize = 0
Returned == pc = "done"
FromMessage == message # NoMessage
GenuineOracle == kind = "pkcs7"

\* the plaintext byte that CBC decryption of the caller's ciphertext has at
\* byte position pos (from the end) of the target block of the current pair
TrueByte(pos) == CbcDecryptBlock(input, N - pairs, blocksize)[blocksize - pos + 1]

\* candidate cand is confirmed at the current byte position
Confirmed(cand) ==
    LET buf == Put(forged, offset, cand)
    IN  /\ oracle(kind, buf, blocksize)
        /\ \/ offset % blocksize = 0
           \/ oracle(kind, Put(buf, offset - 1, 255 - At(buf, offset - 1)), blocksize)

\* the latest oracle call belongs to the current block pair, and to which
\* byte position
QueryFresh ==
    \/ pc \in {"scan", "probe"} /\ firstCalls > 0
    \/ pc = "inner" /\ solved > 0
    \/ result.tag = "InvalidPadding"
QueryPos == IF pc = "inner" THEN i - 1 ELSE i

Differs(buf, idx) == At(buf, idx) # At(input, idx)

\* C1: with the pkcs7 oracle and a ciphertext that is the IV followed by the
\* CBC encryption of a padded message, decrypt returns Ok with exactly the
\* padded message, and unpadding it gives the message back.
C1_RoundTrip ==
    (FromMessage /\ GenuineOracle /\ pc \in {"done", "panic"}) =>
        /\ result = [tag |-> "Ok", plaintext |-> Pkcs7Pad(message, blocksize)]
        /\ Pkcs7Unpad(result.plaintext, blocksize) = message
        /\ Len(result.plaintext) = Len(input) - blocksize

C1_Witness ==
    /\ FromMessage /\ GenuineOracle /\ Returned
    /\ result.tag = "Ok"
    /\ blocksize >= 2
    /\ Len(message) = blocksize
    /\ Pkcs7Unpad(result.plaintext, blocksize) = message

\* C2: a ciphertext whose length is no multiple of blocksize gets WrongSize
\* with blocksize and the length found, and the oracle is never called.
C2_Alignment ==
    ~InputAligned =>
        /\ calls = 0
        /\ pc \in {"entry", "done"}
        /\ Returned =>
             result = [tag |-> "WrongSize", blocksize |-> blocksize,
                       found |-> Len(input)]

C2_Witness ==
    /\ ~InputAligned /\ Returned /\ result.tag = "WrongSize"
    /\ Len(input) > blocksize

\* C3: InvalidPadding is returned exactly when a byte position has all 256
\* candidates unconfirmed; decrypt is then over at once, the latest oracle
\* call is the one for candidate 255 of that position, and the error carries
\* no plaintext.
C3_OracleFailure ==
    /\ tried = 256 =>
         /\ Returned
         /\ result = [tag |-> "InvalidPadding"]
         /\ At(query, offset) = 255
         /\ firstCalls = 256
    /\ (Returned /\ InputAligned) =>
         (result.tag = "InvalidPadding" <=> tried = 256)
    /\ (Returned /\ result.tag = "Ok") => tried < 256
    /\ tried <= 256

C3_Witness ==
    /\ Returned /\ result.tag = "InvalidPadding"
    /\ tried = 256
    /\ Len(plaintext) > 0

\* C4: for an aligned ciphertext of N >= 1 blocks an Ok result has
\* (N-1)*blocksize bytes; an IV-only ciphertext returns the empty plaintext
\* without any oracle call.
C4_OutputLength ==
    (InputAligned /\ N >= 1 /\ Returned) =>
        /\ result.tag = "Ok" => Len(result.plaintext) = (N - 1) * blocksize
        /\ N = 1 => (result = [tag |-> "Ok", plaintext |-> <<>>] /\ calls = 0)

C4_Witness ==
    /\ InputAligned /\ N >= 3 /\ Returned /\ result.tag = "Ok"
    /\ Len(result.plaintext) = (N - 1) * blocksize

\* C5: at one byte position there are never more than 2*256 oracle calls, for
\* a ciphertext of N >= 1 blocks never more than (N-1)*blocksize*2*256 in
\* total; every step of decrypt lowers a well-founded rank, so no run of
\* decrypt goes on for ever.
C5_CallBoundState ==
    /\ firstCalls + probeCalls <= 2 * 256
    /\ (InputAligned /\ N >= 1) => calls <= (N - 1) * blocksize * 2 * 256

\* lexicographic rank of a state: <<stage, outer iterations left, work left in
\* the current iteration>>
Rank ==
    <<CASE pc = "entry" -> 2
        [] pc \in {"outer", "inner", "scan", "probe"} -> 1
        [] OTHER -> 0,
      IF pc \in {"done", "panic"} THEN 0 ELSE rounds,
      CASE pc = "inner" -> (blocksize + 1 - i) * (2 * 256 + 2) + 2 * 256 + 2
        [] pc = "scan"  -> (blocksize + 1 - i) * (2 * 256 + 2) + 2 * (256 - k) + 1
        [] pc = "probe" -> (blocksize + 1 - i) * (2 * 256 + 2) + 2 * (256 - k)
        [] OTHER -> 0>>

RankLess(a, b) ==
    \/ a[1] < b[1]
    \/ a[1] = b[1] /\ a[2] < b[2]
    \/ a[1] = b[1] /\ a[2] = b[2] /\ a[3] < b[3]

C5_OracleCallBound ==
    /\ []C5_CallBoundState
    /\ [](Rank[1] >= 0 /\ Rank[2] >= 0 /\ Rank[3] >= 0)
    /\ [][RankLess(Rank', Rank)]_vars

C5_Witness ==
    /\ firstCalls + probeCalls = 2 * 256
    /\ Returned

\* C6: decrypt returns a value for every ciphertext, the empty one included:
\* no panic is reachable.
C6_NoAbort == pc # "panic" /\ result.tag # "Panic"

\* C7 (as stated): a probe follows only a first call that answered true, and
\* one byte position takes at most 256 + 1 oracle calls.
C7_PerByteWorstCase ==
    /\ pc = "probe" => answer
    /\ firstCalls + probeCalls <= 256 + 1

\* C7 (amended): a probe follows only a first call that answered true, so one
\* byte position takes at most 256 first calls and no more probes than first
\* calls (2*256 calls); with the pkcs7 oracle at most two probes (256 + 2).
C7_PerByteAmended ==
    /\ pc = "probe" => (answer /\ query = forged /\ probeCalls < firstCalls)
    /\ probeCalls <= firstCalls
    /\ firstCalls <= 256
    /\ GenuineOracle => probeCalls <= 2

C7_Witness ==
    /\ firstCalls + probeCalls > 256 + 1
    /\ probeCalls > 0

\* C8: with the pkcs7 oracle exactly one candidate is confirmed at every byte
\* position, the one that recovers the true plaintext byte; any other
\* candidate that reaches the probe (only at i = 1) is rejected by it, the
\* true candidate passes it, and the byte recovered is the true one.
C8_UniqueConfirmation ==
    GenuineOracle =>
        /\ (pc = "scan" /\ k = 0) =>
             \A cand \in Byte :
                Confirmed(cand) <=>
                    Xor(Xor(initial_byte, cand), i % 256) = TrueByte(i)
        /\ (pc = "probe" /\ Xor(Xor(initial_byte, k), i % 256) # TrueByte(i)) =>
             /\ i = 1
             /\ ~oracle(kind, ProbeBuf(forged, offset), blocksize)
        /\ (pc = "probe" /\ Xor(Xor(initial_byte, k), i % 256) = TrueByte(i)) =>
             oracle(kind, ProbeBuf(forged, offset), blocksize)
        /\ result.tag # "InvalidPadding"
        /\ (pc = "inner" /\ solved > 0) =>
             /\ plaintext[1] = TrueByte(i - 1)
             /\ accepted.cand = Xor(Xor(initial_byte, TrueByte(i - 1)), (i - 1) % 256)

\* a false positive with a smaller k than the true candidate is at the probe
C8_Witness ==
    /\ GenuineOracle
    /\ pc = "probe"
    /\ i = 1
    /\ k < Xor(Xor(initial_byte, TrueByte(1)), 1)
    /\ TrueByte(1) # 1

\* C9: the working ciphertext is the prefix of the caller's ciphertext with
\* the retired pairs cut off; a buffer given to the oracle has its length (at
\* least two blocks) and differs from the caller's bytes only in the block
\* before the last, at offset-1 .. offset+i-1; the clone of a byte position
\* starts from the caller's bytes.
C9_ForgeryConfined ==
    /\ (pc # "entry" /\ result.tag # "WrongSize") =>
         /\ Len(input) >= pairs * blocksize
         /\ ciphertext = SubSeq(input, 1, (N - pairs) * blocksize)
    /\ QueryFresh =>
         /\ Len(query) = Len(ciphertext)
         /\ Len(query) = (N - pairs) * blocksize
         /\ Len(query) >= 2 * blocksize
         /\ \A idx \in 0..(Len(query) - 1) :
               Differs(query, idx) =>
                  /\ idx >= Len(query) - 2 * blocksize
                  /\ idx < Len(query) - blocksize
                  /\ idx >= offset - 1
                  /\ idx <= offset + QueryPos - 1
    /\ (pc = "scan" /\ firstCalls = 0) =>
         \A idx \in 0..(Len(forged) - 1) :
            Differs(forged, idx) => (idx > offset /\ idx < offset + i)

C9_Witness ==
    /\ QueryFresh
    /\ pc = "probe"
    /\ pairs >= 1
    /\ i >= 2
    /\ Differs(forged, offset + 1)

\* C10 (as stated): a candidate is accepted without a probe exactly when
\* offset % blocksize == 0, and that is the first byte recovered of the pair.
C10_ConfirmationSkip ==
    accepted.pos > 0 =>
        /\ ~accepted.probed <=> accepted.off % blocksize = 0
        /\ ~accepted.probed => accepted.before = 0

\* C10 (amended): a candidate is accepted without a probe exactly when
\* offset % blocksize == 0, which is byte position i = blocksize, the last
\* byte recovered of the pair; elsewhere it is accepted only after the probe
\* with the byte at offset-1 complemented answered true.
C10_ConfirmationSkipAmended ==
    accepted.pos > 0 =>
        /\ ~accepted.probed <=> accepted.off % blocksize = 0
        /\ ~accepted.probed <=> accepted.pos = blocksize
        /\ ~accepted.probed <=> accepted.before = blocksize - 1
        /\ (accepted.probed /\ pc = "inner" /\ solved > 0) =>
             /\ answer
             /\ query = Put(forged, accepted.off - 1,
                            255 - At(forged, accepted.off - 1))
             /\ oracle(kind, query, blocksize)

C10_Witness ==
    /\ accepted.pos = blocksize
    /\ blocksize >= 2
    /\ ~accepted.probed
    /\ accepted.before = blocksize - 1
    /\ accepted.off % blocksize = 0

====
